---- MODULE Spec2Model ----
(***************************************************************************)
(* Model of the remote-asset synchronisation pipeline of                   *)
(* main_lentes_v2.py: cache partition, forced invalidation, bounded        *)
(* parallel download, merge and sort of the resulting path list; of the    *)
(* pipeline of main_lentes_v1.py, which filters inside the download; of    *)
(* list_files_recursive and get_folder_id_by_path; and of the integrity    *)
(* scan of preprocesamiento.py; of the clients the download tasks work      *)
(* with; and of an interrupt of the main thread while the pool is active.  *)
(* Each part has its own specification.                                    *)
(*                                                                         *)
(* Strings are sequences of character codes, so that os.path.join,         *)
(* str.lower, str.endswith, str.split and the ordering used by list.sort   *)
(* are computed as the program computes them.                              *)
(***************************************************************************)

EXTENDS Integers, Sequences, FiniteSets, TLC

\* ---------------------------------------------------------------- bounds
MaxRemote == 3          \* longest remote listing explored
MaxWorkers == 2         \* value of max_workers explored
MaxRuns == 2            \* consecutive pipeline runs over the same cache
MaxRemoteRuns == 2      \* longest remote listing explored over several runs
MaxNodes == 3           \* entries of the remote tree
MaxPageSize == 2        \* largest page served by files().list
MaxFolders == 2         \* entries of the drive seen by the path lookups
MaxSegments == 2        \* pieces of the path handed to get_folder_id_by_path
MaxScanPaths == 3       \* longest list handed to process_image_list
MaxScans == 2           \* calls of process_image_list on the same list
MaxFramePaths == 2      \* longest scan list explored next to the pipeline

\* ---------------------------------------------------------------- strings
\* "image_cache"
CACHE_DIR == <<105,109,97,103,101,95,99,97,99,104,101>>

\* {'.jpg','.jpeg','.png','.bmp','.tiff','.webp'}
valid_ext ==
    { <<46,106,112,103>>, <<46,106,112,101,103>>, <<46,112,110,103>>,
      <<46,98,109,112>>, <<46,116,105,102,102>>, <<46,119,101,98,112>> }

\* Leaf names offered by the remote tree: "1.jpg", "2.png", "3.BMP",
\* "readme.txt"
NameSet ==
    { <<49,46,106,112,103>>, <<50,46,112,110,103>>, <<51,46,66,77,80>>,
      <<114,101,97,100,109,101,46,116,120,116>> }

\* str.lower() on one ASCII character
Lower(c) == IF c \in 65..90 THEN c + 32 ELSE c

LowerStr(s) == [j \in 1..Len(s) |-> Lower(s[j])]

EndsWith(s, suf) ==
    /\ Len(s) >= Len(suf)
    /\ SubSeq(s, Len(s) - Len(suf) + 1, Len(s)) = suf

\* any(name.lower().endswith(ext) for ext in valid_ext)
IsImageName(name) == \E ext \in valid_ext : EndsWith(LowerStr(name), ext)

\* os.path.join(dir, name): an absolute second component replaces the first
PathJoin(dir, name) ==
    IF name # <<>> /\ name[1] = 47 THEN name ELSE dir \o <<47>> \o name

\* Python's ordering of str: lexicographic by code point
RECURSIVE StrLess(_, _)
StrLess(a, b) ==
    IF a = <<>> THEN b # <<>>
    ELSE IF b = <<>> THEN FALSE
    ELSE IF a[1] # b[1] THEN a[1] < b[1]
    ELSE StrLess(Tail(a), Tail(b))

RECURSIVE InsertSorted(_, _)
InsertSorted(x, s) ==
    IF s = <<>> THEN <<x>>
    ELSE IF ~StrLess(s[1], x) THEN <<x>> \o s
    ELSE <<s[1]>> \o InsertSorted(x, Tail(s))

\* variant of SortPaths: the merged list is returned in merge order
SortPathsOmitted(s) == s

\* list.sort() on a list of str
RECURSIVE SortPaths(_)
SortPaths(s) ==
    IF s = <<>> THEN <<>> ELSE InsertSorted(Head(s), SortPaths(Tail(s)))

\* ---------------------------------------------------------------- helpers
Range(s) == { s[j] : j \in 1..Len(s) }

Count(s, x) == Cardinality({ j \in 1..Len(s) : s[j] = x })

SeqsUpTo(S, n) == UNION { [1..m -> S] : m \in 0..n }

\* variant of FilterImages: the extension filter is missing
FilterImagesNone(files) == files

\* [(fid, name) for ... if any(name.lower().endswith(ext) ...)]
RECURSIVE FilterImages(_)
FilterImages(files) ==
    IF files = <<>> THEN <<>>
    ELSE IF IsImageName(files[1][2])
         THEN <<files[1]>> \o FilterImages(Tail(files))
         ELSE FilterImages(Tail(files))

\* ---------------------------------------------------------------- state
VARIABLES
    run,                 \* ordinal of the current pipeline run
    forzar_descarga,     \* parameter of process_drive_folder_optimized
    max_workers,         \* parameter of process_drive_folder_optimized
    remote_files,        \* result of list_files_recursive: <<fid, name>>
    fs,                  \* cache directory: name -> "absent"|"valid"|"partial"
    pc,                  \* position of the orchestrator
    remote_image_files,  \* remote_files filtered by extension
    pending_del,         \* names of os.listdir(CACHE_DIR) not yet visited
    k,                   \* index of the next entry of the partition loop
    files_to_download,   \* list of <<fid, name>>
    cached_image_paths,  \* list of paths
    fut,                 \* state of each submitted future
    yielded,             \* futures already consumed from as_completed
    dl_image_paths,      \* image_paths of download_files_parallel
    errors,              \* errors of download_files_parallel
    image_paths,         \* image_paths of process_drive_folder_optimized
    variant,             \* which source file's pipeline runs: "v2" or "v1"
    printed,             \* the line printed last
    summary,             \* "Descarga completa" line: <<>> or <<exitos, errores>>
    pool,                \* a ThreadPoolExecutor was created
    clients,             \* number of calls of drive_service_func
    classified,          \* the detection phase was entered
    tree,                \* remote tree: node -> [parent, folder, name]
    page_size,           \* entries per page of files().list
    ls_stack,            \* call stack of list_files_recursive
    ls_result,           \* value returned by the outermost call
    ls_pc,               \* "idle" | "running" | "returned"
    gp_segments,         \* segments of get_folder_id_by_path
    gp_i,                \* index of the segment being resolved
    gp_parent,           \* parent_id
    gp_lookups,          \* lookups issued: <<name, parent>>
    gp_out,              \* "idle" | "running" | "returned" | "raised"
    fs0,                 \* files on disk when process_image_list was first called
    scan_paths,          \* argument of process_image_list
    scan_i,              \* index of the next path of the scan
    deleted_count,       \* deleted_count of process_image_list
    scan_rets,           \* values returned by the calls so far
    ls_order,            \* order in which the service lists siblings
    ls_prev,             \* values returned by earlier listings of the tree
    ls_endless,          \* the service returns a nextPageToken on every page
    interrupted,         \* KeyboardInterrupt was raised in the main thread
    pending_at_int,      \* futures not yet started when it was raised
    prev_run,            \* <<image_paths, errors>> of the run before, or <<>>
    cl_variant,          \* how a task gets its client
    cl_threads,          \* worker thread -> [task, drive]
    cl_tasks,            \* task -> client it uses (0: not started)
    cl_made              \* number of clients built by drive_service_func

obs == << printed, summary, pool, clients, classified >>
lsvars == << tree, page_size, ls_stack, ls_result, ls_pc >>
gpvars == << gp_segments, gp_i, gp_parent, gp_lookups, gp_out >>
scvars == << fs0, scan_paths, scan_i, deleted_count, scan_rets >>
lsenv == << ls_order, ls_prev, ls_endless >>
intvars == << interrupted, pending_at_int >>
clvars == << cl_variant, cl_threads, cl_tasks, cl_made >>
more == << lsenv, intvars, prev_run, clvars >>
others == << lsvars, gpvars, scvars, more >>

vars == << run, forzar_descarga, max_workers, remote_files, fs, pc,
           remote_image_files, pending_del, k, files_to_download,
           cached_image_paths, fut, yielded, dl_image_paths, errors,
           image_paths, variant, obs, others >>

params == << forzar_descarga, max_workers, remote_files, variant >>
dlvars == << fut, yielded, dl_image_paths, errors >>

\* variant of Exists: the bare file name is looked up instead of the joined
\* cache path
ExistsBareName(path) == \E n \in NameSet : n = path /\ fs[n] # "absent"

\* os.path.exists(path) for a path below the cache directory
Exists(path) == \E n \in NameSet : PathJoin(CACHE_DIR, n) = path /\ fs[n] # "absent"

\* os.listdir(CACHE_DIR)
ListDir == { n \in NameSet : fs[n] # "absent" }

ObsInit ==
    /\ printed = <<"INFO">>
    /\ summary = <<>>
    /\ pool = FALSE
    /\ clients = 0
    /\ classified = FALSE

ClientsIdle ==
    /\ cl_variant = "idle"
    /\ cl_threads = <<>>
    /\ cl_tasks = <<>>
    /\ cl_made = 0

\* one listing, siblings in the order of their ids, pagination that ends
ListingEnvIdle ==
    /\ ls_order = "asc"
    /\ ls_prev = <<>>
    /\ ls_endless = FALSE

InterruptIdle ==
    /\ interrupted = FALSE
    /\ pending_at_int = {}

MoreIdle ==
    /\ ListingEnvIdle
    /\ InterruptIdle
    /\ prev_run = <<>>
    /\ ClientsIdle

ListingIdle ==
    /\ tree = <<>>
    /\ page_size = 0
    /\ ls_stack = <<>>
    /\ ls_result = <<>>
    /\ ls_pc = "idle"

PathIdle ==
    /\ gp_segments = <<>>
    /\ gp_i = 0
    /\ gp_parent = 0
    /\ gp_lookups = <<>>
    /\ gp_out = "idle"

ScanIdle ==
    /\ fs0 = <<>>
    /\ scan_paths = <<>>
    /\ scan_i = 0
    /\ deleted_count = 0
    /\ scan_rets = <<>>

\* The cache directory starts with what earlier runs downloaded completely:
\* files with image names only.
Init ==
    /\ pc = "start"
    /\ remote_image_files = <<>>
    /\ pending_del = {}
    /\ k = 1
    /\ files_to_download = <<>>
    /\ cached_image_paths = <<>>
    /\ fut = <<>>
    /\ yielded = {}
    /\ dl_image_paths = <<>>
    /\ errors = 0
    /\ image_paths = <<>>
    /\ run = 1
    /\ variant = "v2"
    /\ ObsInit
    /\ MoreIdle
    /\ ListingIdle
    /\ PathIdle
    /\ ScanIdle
    /\ forzar_descarga \in BOOLEAN
    /\ max_workers = MaxWorkers
    /\ \E ns \in SeqsUpTo(NameSet, MaxRemote) :
          remote_files = [j \in 1..Len(ns) |-> <<j, ns[j]>>]
    /\ \E present \in SUBSET { n \in NameSet : IsImageName(n) } :
          fs = [n \in NameSet |-> IF n \in present THEN "valid" ELSE "absent"]

\* ------------------------------------------------- listing and invalidation
\* remote_files = list_files_recursive(...); if not remote_files: return [], []
ListEmpty ==
    /\ pc = "start"
    /\ remote_files = <<>>
    /\ pc' = "done"
    /\ image_paths' = <<>>
    /\ UNCHANGED << run, params, fs, remote_image_files, pending_del, k,
                    files_to_download, cached_image_paths, dlvars >>
    /\ printed' = <<"ERROR">>
    /\ UNCHANGED << summary, pool, clients, classified, others >>

\* variant of FilterRemote: the cache directory is emptied on every run
FilterRemoteAlwaysInvalidate ==
    /\ pc = "start"
    /\ remote_files # <<>>
    /\ remote_image_files' = FilterImages(remote_files)
    /\ pc' = "invalidate"
    /\ pending_del' = ListDir
    /\ UNCHANGED << run, params, fs, k, files_to_download,
                    cached_image_paths, dlvars, image_paths >>
    /\ printed' = <<"INFO">>
    /\ UNCHANGED << summary, pool, clients, classified, others >>

\* extension filter, then entry of the invalidation loop or of the partition
FilterRemote ==
    /\ pc = "start"
    /\ remote_files # <<>>
    /\ remote_image_files' = FilterImages(remote_files)
    /\ IF forzar_descarga
          THEN pc' = "invalidate" /\ pending_del' = ListDir
          ELSE pc' = "partition" /\ pending_del' = {}
    /\ UNCHANGED << run, params, fs, k, files_to_download,
                    cached_image_paths, dlvars, image_paths >>
    /\ printed' = <<"INFO">>
    /\ UNCHANGED << summary, pool, clients, classified, others >>

\* variant of RemoveCached: the try block encloses the whole loop, the first
\* OSError ends the pass
RemoveCachedAbort(f, removed) ==
    /\ pc = "invalidate"
    /\ f \in pending_del
    /\ pending_del' = IF removed THEN pending_del \ {f} ELSE {}
    /\ fs' = IF removed THEN [fs EXCEPT ![f] = "absent"] ELSE fs
    /\ UNCHANGED << run, params, pc, remote_image_files, k, files_to_download,
                    cached_image_paths, dlvars, image_paths >>
    /\ printed' = IF removed THEN printed ELSE <<"WARNING", f>>
    /\ UNCHANGED << summary, pool, clients, classified, others >>

\* one iteration of "for f in os.listdir(CACHE_DIR)": os.remove succeeds, or
\* raises OSError which is caught and reported
RemoveCached(f, removed) ==
    /\ pc = "invalidate"
    /\ f \in pending_del
    /\ pending_del' = pending_del \ {f}
    /\ fs' = IF removed THEN [fs EXCEPT ![f] = "absent"] ELSE fs
    /\ UNCHANGED << run, params, pc, remote_image_files, k, files_to_download,
                    cached_image_paths, dlvars, image_paths >>
    /\ printed' = IF removed THEN printed ELSE <<"WARNING", f>>
    /\ UNCHANGED << summary, pool, clients, classified, others >>

\* variant of InvalidateDone: the partition starts with entries of the
\* listing still to be removed
InvalidateDoneEarly ==
    /\ pc = "invalidate"
    /\ pc' = "partition"
    /\ UNCHANGED << run, params, fs, remote_image_files, pending_del, k,
                    files_to_download, cached_image_paths, dlvars,
                    image_paths >>
    /\ printed' = <<"INFO">>
    /\ UNCHANGED << summary, pool, clients, classified, others >>

InvalidateDone ==
    /\ pc = "invalidate"
    /\ pending_del = {}
    /\ pc' = "partition"
    /\ UNCHANGED << run, params, fs, remote_image_files, pending_del, k,
                    files_to_download, cached_image_paths, dlvars,
                    image_paths >>
    /\ printed' = <<"INFO">>
    /\ UNCHANGED << summary, pool, clients, classified, others >>

\* ---------------------------------------------------------------- partition
\* variant of PartitionStep: a cache hit is queued for download as well
PartitionStepBoth ==
    /\ pc = "partition"
    /\ k <= Len(remote_image_files)
    /\ LET entry == remote_image_files[k]
           local_path == PathJoin(CACHE_DIR, entry[2])
       IN  IF Exists(local_path) /\ ~forzar_descarga
              THEN /\ cached_image_paths' = Append(cached_image_paths, local_path)
                   /\ files_to_download' = Append(files_to_download, entry)
              ELSE /\ files_to_download' = Append(files_to_download, entry)
                   /\ UNCHANGED cached_image_paths
    /\ k' = k + 1
    /\ UNCHANGED << run, params, fs, pc, remote_image_files, pending_del,
                    dlvars, image_paths >>
    /\ UNCHANGED << obs, others >>

\* variant of PartitionStep: the test ignores forzar_descarga
PartitionStepNoForce ==
    /\ pc = "partition"
    /\ k <= Len(remote_image_files)
    /\ LET entry == remote_image_files[k]
           local_path == PathJoin(CACHE_DIR, entry[2])
       IN  IF Exists(local_path)
              THEN /\ cached_image_paths' = Append(cached_image_paths, local_path)
                   /\ UNCHANGED files_to_download
              ELSE /\ files_to_download' = Append(files_to_download, entry)
                   /\ UNCHANGED cached_image_paths
    /\ k' = k + 1
    /\ UNCHANGED << run, params, fs, pc, remote_image_files, pending_del,
                    dlvars, image_paths >>
    /\ UNCHANGED << obs, others >>

\* one iteration of "for file_id, file_name in remote_image_files"
PartitionStep ==
    /\ pc = "partition"
    /\ k <= Len(remote_image_files)
    /\ LET entry == remote_image_files[k]
           local_path == PathJoin(CACHE_DIR, entry[2])
       IN  IF Exists(local_path) /\ ~forzar_descarga
              THEN /\ cached_image_paths' = Append(cached_image_paths, local_path)
                   /\ UNCHANGED files_to_download
              ELSE /\ files_to_download' = Append(files_to_download, entry)
                   /\ UNCHANGED cached_image_paths
    /\ k' = k + 1
    /\ UNCHANGED << run, params, fs, pc, remote_image_files, pending_del,
                    dlvars, image_paths >>
    /\ UNCHANGED << obs, others >>

\* ---------------------------------------------------------------- download
\* if files_to_download: download_files_parallel(...) submits one future per
\* entry
SubmitDownloads ==
    /\ pc = "partition"
    /\ k > Len(remote_image_files)
    /\ files_to_download # <<>>
    /\ pc' = "download"
    /\ fut' = [t \in 1..Len(files_to_download) |-> "pending"]
    /\ yielded' = {}
    /\ dl_image_paths' = <<>>
    /\ errors' = 0
    /\ UNCHANGED << run, params, fs, remote_image_files, pending_del, k,
                    files_to_download, cached_image_paths, image_paths >>
    /\ pool' = TRUE
    /\ printed' = <<"INFO">>
    /\ UNCHANGED << summary, clients, classified, others >>

Running == { t \in 1..Len(fut) : fut[t] = "running" }

\* variant of StartTask: a thread is spawned per task, whatever max_workers
StartTaskUnbounded(t, opened) ==
    /\ pc = "download"
    /\ t \in 1..Len(fut)
    /\ fut[t] = "pending"
    /\ \A u \in 1..(t - 1) : fut[u] # "pending"
    /\ IF opened
          THEN /\ fut' = [fut EXCEPT ![t] = "running"]
               /\ fs' = [fs EXCEPT ![files_to_download[t][2]] = "partial"]
          ELSE /\ fut' = [fut EXCEPT ![t] = "exception"]
               /\ UNCHANGED fs
    /\ UNCHANGED << run, params, pc, remote_image_files, pending_del, k,
                    files_to_download, cached_image_paths, yielded,
                    dl_image_paths, errors, image_paths >>
    /\ clients' = clients + 1
    /\ UNCHANGED << printed, summary, pool, classified, others >>

\* a pool thread takes the oldest queued work item; the client factory or
\* io.FileIO(dest_path, "wb") raises, or the destination is created empty
StartTask(t, opened) ==
    /\ pc = "download"
    /\ t \in 1..Len(fut)
    /\ fut[t] = "pending"
    /\ \A u \in 1..(t - 1) : fut[u] # "pending"
    /\ Cardinality(Running) < max_workers
    /\ IF opened
          THEN /\ fut' = [fut EXCEPT ![t] = "running"]
               /\ fs' = [fs EXCEPT ![files_to_download[t][2]] = "partial"]
          ELSE /\ fut' = [fut EXCEPT ![t] = "exception"]
               /\ UNCHANGED fs
    /\ UNCHANGED << run, params, pc, remote_image_files, pending_del, k,
                    files_to_download, cached_image_paths, yielded,
                    dl_image_paths, errors, image_paths >>
    /\ clients' = clients + 1
    /\ UNCHANGED << printed, summary, pool, classified, others >>

\* the chunk loop of download_file_optimized ends: the last chunk arrived and
\* the file is closed, or next_chunk raised and the file stays as written
FinishTask(t, ok) ==
    /\ pc = "download"
    /\ t \in 1..Len(fut)
    /\ fut[t] = "running"
    /\ IF ok
          THEN /\ fut' = [fut EXCEPT ![t] = "result"]
               /\ fs' = [fs EXCEPT ![files_to_download[t][2]] = "valid"]
          ELSE /\ fut' = [fut EXCEPT ![t] = "exception"]
               /\ UNCHANGED fs
    /\ UNCHANGED << run, params, pc, remote_image_files, pending_del, k,
                    files_to_download, cached_image_paths, yielded,
                    dl_image_paths, errors, image_paths >>
    /\ UNCHANGED << obs, others >>

\* variant of CollectFuture: a failed future is logged but not counted
CollectFutureUncounted(t) ==
    /\ pc = "download"
    /\ t \in 1..Len(fut)
    /\ t \notin yielded
    /\ fut[t] \in {"result", "exception"}
    /\ yielded' = yielded \cup {t}
    /\ IF fut[t] = "result"
          THEN dl_image_paths' =
                  Append(dl_image_paths,
                         PathJoin(CACHE_DIR, files_to_download[t][2]))
          ELSE UNCHANGED dl_image_paths
    /\ UNCHANGED << run, params, fs, pc, remote_image_files, pending_del, k,
                    files_to_download, cached_image_paths, fut, errors,
                    image_paths >>
    /\ printed' = IF fut[t] = "exception" THEN <<"ERROR">> ELSE printed
    /\ UNCHANGED << summary, pool, clients, classified, others >>

\* variant of CollectFuture: the first failed future ends the result loop
CollectFutureAbort(t) ==
    /\ pc = "download"
    /\ t \in 1..Len(fut)
    /\ t \notin yielded
    /\ fut[t] \in {"result", "exception"}
    /\ IF fut[t] = "result"
          THEN /\ yielded' = yielded \cup {t}
               /\ dl_image_paths' =
                     Append(dl_image_paths,
                            PathJoin(CACHE_DIR, files_to_download[t][2]))
               /\ UNCHANGED errors
          ELSE /\ yielded' = 1..Len(fut)
               /\ errors' = errors + 1
               /\ UNCHANGED dl_image_paths
    /\ UNCHANGED << run, params, fs, pc, remote_image_files, pending_del, k,
                    files_to_download, cached_image_paths, fut, image_paths >>
    /\ printed' = IF fut[t] = "exception" THEN <<"ERROR">> ELSE printed
    /\ UNCHANGED << summary, pool, clients, classified, others >>

\* one iteration of "for future in progress_bar"
CollectFuture(t) ==
    /\ pc = "download"
    /\ ~interrupted
    /\ t \in 1..Len(fut)
    /\ t \notin yielded
    /\ fut[t] \in {"result", "exception"}
    /\ yielded' = yielded \cup {t}
    /\ IF fut[t] = "result"
          THEN /\ dl_image_paths' =
                     Append(dl_image_paths,
                            PathJoin(CACHE_DIR, files_to_download[t][2]))
               /\ UNCHANGED errors
          ELSE /\ errors' = errors + 1
               /\ UNCHANGED dl_image_paths
    /\ UNCHANGED << run, params, fs, pc, remote_image_files, pending_del, k,
                    files_to_download, cached_image_paths, fut, image_paths >>
    /\ printed' = IF fut[t] = "exception" THEN <<"ERROR">> ELSE printed
    /\ UNCHANGED << summary, pool, clients, classified, others >>

\* variant of DownloadReturn: the result loop ends with the futures finished
\* so far and the pool is left without waiting
DownloadReturnEarly ==
    /\ pc = "download"
    /\ variant = "v2"
    /\ \A t \in 1..Len(fut) : fut[t] \in {"result", "exception"} => t \in yielded
    /\ image_paths' = SortPaths(cached_image_paths \o dl_image_paths)
    /\ pc' = "done"
    /\ UNCHANGED << run, params, fs, remote_image_files, pending_del, k,
                    files_to_download, cached_image_paths, dlvars >>
    /\ summary' = << Len(dl_image_paths), errors >>
    /\ classified' = (cached_image_paths \o dl_image_paths # <<>>)
    /\ printed' = IF cached_image_paths \o dl_image_paths = <<>>
                     THEN <<"WARNING">> ELSE <<"INFO">>
    /\ UNCHANGED << pool, clients, others >>

\* as_completed is exhausted, the pool is shut down, download_files_parallel
\* returns; image_paths = cached_image_paths + downloaded_paths; sort
DownloadReturn ==
    /\ pc = "download"
    /\ ~interrupted
    /\ variant = "v2"
    /\ yielded = 1..Len(fut)
    /\ image_paths' = SortPaths(cached_image_paths \o dl_image_paths)
    /\ pc' = "done"
    /\ UNCHANGED << run, params, fs, remote_image_files, pending_del, k,
                    files_to_download, cached_image_paths, dlvars >>
    /\ summary' = << Len(dl_image_paths), errors >>
    /\ classified' = (cached_image_paths \o dl_image_paths # <<>>)
    /\ printed' = IF cached_image_paths \o dl_image_paths = <<>>
                     THEN <<"WARNING">> ELSE <<"INFO">>
    /\ UNCHANGED << pool, clients, others >>

\* variant of ReturnCached: the test "if not image_paths" is missing
ReturnCachedUnchecked ==
    /\ pc = "partition"
    /\ k > Len(remote_image_files)
    /\ files_to_download = <<>>
    /\ image_paths' = SortPaths(cached_image_paths)
    /\ cached_image_paths' = SortPaths(cached_image_paths)
    /\ pc' = "done"
    /\ UNCHANGED << run, params, fs, remote_image_files, pending_del, k,
                    files_to_download, dlvars >>
    /\ classified' = TRUE
    /\ printed' = <<"INFO">>
    /\ UNCHANGED << summary, pool, clients, others >>

\* else-branch: image_paths = cached_image_paths (the same list object), which
\* image_paths.sort() then sorts in place
ReturnCached ==
    /\ pc = "partition"
    /\ k > Len(remote_image_files)
    /\ files_to_download = <<>>
    /\ image_paths' = SortPaths(cached_image_paths)
    /\ cached_image_paths' = SortPaths(cached_image_paths)
    /\ pc' = "done"
    /\ UNCHANGED << run, params, fs, remote_image_files, pending_del, k,
                    files_to_download, dlvars >>
    /\ classified' = (cached_image_paths # <<>>)
    /\ printed' = IF cached_image_paths = <<>> THEN <<"WARNING">> ELSE <<"INFO">>
    /\ UNCHANGED << summary, pool, clients, others >>

\* ---------------------------------------------------------------- next run
\* variant of NextRun: every run downloads into a directory of its own
NextRunFreshDir ==
    /\ pc = "done"
    /\ run < MaxRuns
    /\ run' = run + 1
    /\ forzar_descarga' \in BOOLEAN
    /\ pc' = "start"
    /\ remote_image_files' = <<>>
    /\ pending_del' = {}
    /\ k' = 1
    /\ files_to_download' = <<>>
    /\ cached_image_paths' = <<>>
    /\ fut' = <<>>
    /\ yielded' = {}
    /\ dl_image_paths' = <<>>
    /\ errors' = 0
    /\ image_paths' = <<>>
    /\ fs' = [n \in NameSet |-> "absent"]
    /\ UNCHANGED << max_workers, remote_files >>
    /\ printed' = <<"INFO">>
    /\ summary' = <<>>
    /\ pool' = FALSE
    /\ clients' = 0
    /\ classified' = FALSE
    /\ prev_run' = << image_paths, errors >>
    /\ UNCHANGED << variant, lsvars, gpvars, scvars, lsenv, intvars,
                    clvars >>

\* the program is started again over the same remote tree and cache directory
NextRun ==
    /\ pc = "done"
    /\ run < MaxRuns
    /\ run' = run + 1
    /\ forzar_descarga' \in BOOLEAN
    /\ pc' = "start"
    /\ remote_image_files' = <<>>
    /\ pending_del' = {}
    /\ k' = 1
    /\ files_to_download' = <<>>
    /\ cached_image_paths' = <<>>
    /\ fut' = <<>>
    /\ yielded' = {}
    /\ dl_image_paths' = <<>>
    /\ errors' = 0
    /\ image_paths' = <<>>
    /\ UNCHANGED << max_workers, remote_files, fs >>
    /\ printed' = <<"INFO">>
    /\ summary' = <<>>
    /\ pool' = FALSE
    /\ clients' = 0
    /\ classified' = FALSE
    /\ prev_run' = << image_paths, errors >>
    /\ UNCHANGED << variant, lsvars, gpvars, scvars, lsenv, intvars,
                    clvars >>

Next ==
    \/ ListEmpty
    \/ FilterRemote
    \/ \E f \in NameSet, removed \in BOOLEAN : RemoveCached(f, removed)
    \/ InvalidateDone
    \/ PartitionStep
    \/ SubmitDownloads
    \/ \E t \in DOMAIN fut, opened \in BOOLEAN : StartTask(t, opened)
    \/ \E t \in DOMAIN fut, ok \in BOOLEAN : FinishTask(t, ok)
    \/ \E t \in DOMAIN fut : CollectFuture(t)
    \/ DownloadReturn
    \/ ReturnCached

\* one call of process_drive_folder_optimized
Spec == Init /\ [][Next]_vars

\* several calls, one after the other, over the same cache directory
InitRuns == Init /\ Len(remote_files) <= MaxRemoteRuns

NextRuns == Next \/ NextRun

SpecRuns == InitRuns /\ [][NextRuns]_vars

\* --------------------------------------- download_files_parallel on its own
\* The function of main_lentes_v2.py takes the task list as given; the one of
\* main_lentes_v1.py (and of preprocesamiento.py) filters it by extension.
Filtering == variant \in {"v1", "dl_v1"}

ValidFiles == IF Filtering THEN FilterImages(remote_files) ELSE remote_files

\* a direct call: any list of files, an empty download directory
InitDL ==
    /\ run = 1
    /\ variant \in {"dl_v2", "dl_v1"}
    /\ forzar_descarga = FALSE
    /\ max_workers = MaxWorkers
    /\ \E ns \in SeqsUpTo(NameSet, MaxRemote) :
          remote_files = [j \in 1..Len(ns) |-> <<j, ns[j]>>]
    /\ fs = [n \in NameSet |-> "absent"]
    /\ pc = "dl_call"
    /\ remote_image_files = <<>>
    /\ pending_del = {}
    /\ k = 1
    /\ files_to_download = <<>>
    /\ cached_image_paths = <<>>
    /\ fut = <<>>
    /\ yielded = {}
    /\ dl_image_paths = <<>>
    /\ errors = 0
    /\ image_paths = <<>>
    /\ ObsInit
    /\ MoreIdle
    /\ ListingIdle
    /\ PathIdle
    /\ ScanIdle

\* variant of DLCallEmpty: the early return is missing, the pool is entered
\* with nothing to submit
DLCallEmptyPooled ==
    /\ pc = "dl_call"
    /\ ValidFiles = <<>>
    /\ pc' = "dl_returned"
    /\ pool' = TRUE
    /\ summary' = << 0, 0 >>
    /\ printed' = <<"INFO">>
    /\ UNCHANGED << run, params, fs, remote_image_files, pending_del, k,
                    files_to_download, cached_image_paths, dlvars,
                    image_paths, clients, classified, others >>

\* if not files / if not valid_files: print("[WARNING] ..."); return []
DLCallEmpty ==
    /\ pc = "dl_call"
    /\ ValidFiles = <<>>
    /\ pc' = "dl_returned"
    /\ printed' = <<"WARNING">>
    /\ UNCHANGED << run, params, fs, remote_image_files, pending_del, k,
                    files_to_download, cached_image_paths, dlvars,
                    image_paths, summary, pool, clients, classified, others >>

\* with ThreadPoolExecutor(...): one future is submitted per (valid) file
DLSubmit ==
    /\ pc = "dl_call"
    /\ ValidFiles # <<>>
    /\ pc' = "download"
    /\ files_to_download' = ValidFiles
    /\ fut' = [t \in 1..Len(ValidFiles) |-> "pending"]
    /\ pool' = TRUE
    /\ UNCHANGED << run, params, fs, remote_image_files, pending_del, k,
                    cached_image_paths, yielded, dl_image_paths, errors,
                    image_paths, printed, summary, clients, classified,
                    others >>

\* the result loop and the with-block end;
\* print("[INFO] Descarga completa: ..."); return image_paths
DLReturn ==
    /\ pc = "download"
    /\ ~interrupted
    /\ variant # "v2"
    /\ yielded = 1..Len(fut)
    /\ pc' = "dl_returned"
    /\ summary' = << Len(dl_image_paths), errors >>
    /\ printed' = <<"INFO">>
    /\ UNCHANGED << run, params, fs, remote_image_files, pending_del, k,
                    files_to_download, cached_image_paths, dlvars,
                    image_paths, pool, clients, classified, others >>

PoolStep ==
    \/ \E t \in DOMAIN fut, opened \in BOOLEAN : StartTask(t, opened)
    \/ \E t \in DOMAIN fut, ok \in BOOLEAN : FinishTask(t, ok)
    \/ \E t \in DOMAIN fut : CollectFuture(t)

NextDL ==
    \/ DLCallEmpty
    \/ DLSubmit
    \/ PoolStep
    \/ DLReturn

SpecDL == InitDL /\ [][NextDL]_vars

\* ------------------------------------------------- pipeline of main_lentes_v1
\* files are downloaded into a fresh temporary directory, there is no cache
InitV1 ==
    /\ run = 1
    /\ variant = "v1"
    /\ forzar_descarga = FALSE
    /\ max_workers = MaxWorkers
    /\ \E ns \in SeqsUpTo(NameSet, MaxRemote) :
          remote_files = [j \in 1..Len(ns) |-> <<j, ns[j]>>]
    /\ fs = [n \in NameSet |-> "absent"]
    /\ pc = "v1_start"
    /\ remote_image_files = <<>>
    /\ pending_del = {}
    /\ k = 1
    /\ files_to_download = <<>>
    /\ cached_image_paths = <<>>
    /\ fut = <<>>
    /\ yielded = {}
    /\ dl_image_paths = <<>>
    /\ errors = 0
    /\ image_paths = <<>>
    /\ ObsInit
    /\ MoreIdle
    /\ ListingIdle
    /\ PathIdle
    /\ ScanIdle

\* files = list_files_recursive(...); if not files: return [], []; otherwise
\* download_files_parallel(files, temp_dir, ...) is called
V1Start ==
    /\ pc = "v1_start"
    /\ IF remote_files = <<>>
          THEN pc' = "done" /\ printed' = <<"ERROR">>
          ELSE pc' = "dl_call" /\ printed' = <<"INFO">>
    /\ UNCHANGED << run, params, fs, remote_image_files, pending_del, k,
                    files_to_download, cached_image_paths, dlvars,
                    image_paths, summary, pool, clients, classified, others >>

\* image_paths = download_files_parallel(...);
\* if not image_paths: return [], []; otherwise detection starts
V1AfterDownload ==
    /\ pc = "dl_returned"
    /\ variant = "v1"
    /\ pc' = "done"
    /\ image_paths' = dl_image_paths
    /\ classified' = (dl_image_paths # <<>>)
    /\ printed' = IF dl_image_paths = <<>> THEN <<"WARNING">> ELSE <<"INFO">>
    /\ UNCHANGED << run, params, fs, remote_image_files, pending_del, k,
                    files_to_download, cached_image_paths, dlvars,
                    summary, pool, clients, others >>

\* both pipelines
InitPipelines == Init \/ InitV1

NextPipelines ==
    \/ Next
    \/ V1Start
    \/ DLCallEmpty
    \/ DLSubmit
    \/ DLReturn
    \/ V1AfterDownload

SpecPipelines == InitPipelines /\ [][NextPipelines]_vars

\* ------------------------------------------------------ list_files_recursive
\* the pipeline is not running while a helper is exercised on its own
PipelineOff ==
    /\ run = 1
    /\ variant = "v2"
    /\ forzar_descarga = FALSE
    /\ max_workers = MaxWorkers
    /\ remote_files = <<>>
    /\ fs = [n \in NameSet |-> "absent"]
    /\ pc = "idle"
    /\ remote_image_files = <<>>
    /\ pending_del = {}
    /\ k = 1
    /\ files_to_download = <<>>
    /\ cached_image_paths = <<>>
    /\ fut = <<>>
    /\ yielded = {}
    /\ dl_image_paths = <<>>
    /\ errors = 0
    /\ image_paths = <<>>
    /\ ObsInit

PipelineIdle ==
    /\ PipelineOff
    /\ MoreIdle

pipevars == << run, params, fs, pc, remote_image_files, pending_del, k,
               files_to_download, cached_image_paths, dlvars, image_paths,
               obs,
               more >>

FileNames == { <<49, 46, 106, 112, 103>>,
               <<114, 101, 97, 100, 109, 101, 46, 116, 120, 116>> }

FolderName == <<65>>

\* the entries of the remote drive below the folder with id 0: entry n has
\* id n, one parent (a folder created before it, or the root), a mimeType,
\* a trashed flag and a name
Trees ==
    UNION { { t \in [1..m -> [parent : 0..(m - 1), folder : BOOLEAN,
                              trashed : BOOLEAN,
                              name : FileNames \cup {FolderName}]] :
                \A n \in 1..m :
                   /\ t[n].parent < n
                   /\ t[n].parent # 0 => t[t[n].parent].folder
                   /\ t[n].folder <=> t[n].name = FolderName } :
            m \in 0..MaxNodes }

\* the files matched by q = "'<folder_id>' in parents and trashed = false",
\* in the order the service lists them
RECURSIVE ChildrenFrom(_, _)
ChildrenFrom(folder_id, n) ==
    IF n > Len(tree) THEN <<>>
    ELSE IF tree[n].parent = folder_id /\ ~tree[n].trashed
         THEN <<n>> \o ChildrenFrom(folder_id, n + 1)
         ELSE ChildrenFrom(folder_id, n + 1)

RECURSIVE Reverse(_)
Reverse(q) == IF q = <<>> THEN <<>> ELSE Append(Reverse(Tail(q)), Head(q))

\* the service lists siblings in an order of its own choosing
Children(folder_id) ==
    IF ls_order = "asc" THEN ChildrenFrom(folder_id, 1)
    ELSE Reverse(ChildrenFrom(folder_id, 1))

Min(a, b) == IF a < b THEN a ELSE b

\* resp["files"] of files().list(q, pageToken): a page token is the number
\* of entries already served, None is 0
PageFiles(folder_id, page_token) ==
    SubSeq(Children(folder_id), page_token + 1,
           Min(page_token + page_size, Len(Children(folder_id))))

\* resp.get("nextPageToken")
\* a service whose pagination never ends goes on with a token and empty pages
NextPageToken(folder_id, page_token) ==
    IF page_token + page_size < Len(Children(folder_id))
    THEN page_token + page_size
    ELSE IF ls_endless THEN Len(Children(folder_id)) + 1
    ELSE 0

\* a call of list_files_recursive(folder_id, drive) at its first request
Frame(folder_id) ==
    [folder_id |-> folder_id, page_token |-> 0, at |-> "list",
     files |-> <<>>, next |-> 0, results |-> <<>>]

Top == ls_stack[Len(ls_stack)]

SetTop(fr) == [ls_stack EXCEPT ![Len(ls_stack)] = fr]

InitList ==
    /\ PipelineIdle
    /\ PathIdle
    /\ ScanIdle
    /\ tree \in Trees
    /\ page_size \in 1..MaxPageSize
    /\ ls_stack = << Frame(0) >>
    /\ ls_result = <<>>
    /\ ls_pc = "running"

\* resp = drive.files().list(q=query, pageToken=page_token).execute()
LsListPage ==
    /\ ls_pc = "running"
    /\ Top.at = "list"
    /\ ls_stack' = SetTop([Top EXCEPT
                      !.files = PageFiles(Top.folder_id, Top.page_token),
                      !.next = NextPageToken(Top.folder_id, Top.page_token),
                      !.at = "for"])
    /\ UNCHANGED << tree, page_size, ls_result, ls_pc, pipevars, gpvars,
                    scvars >>

\* one iteration of "for f in resp['files']" on a folder: the recursive call
LsDescend ==
    /\ ls_pc = "running"
    /\ Top.at = "for"
    /\ Top.files # <<>>
    /\ tree[Head(Top.files)].folder
    /\ ls_stack' = Append(SetTop([Top EXCEPT !.files = Tail(Top.files)]),
                          Frame(Head(Top.files)))
    /\ UNCHANGED << tree, page_size, ls_result, ls_pc, pipevars, gpvars,
                    scvars >>

\* one iteration on any other entry: results.append((f["id"], f["name"]))
LsAppend ==
    /\ ls_pc = "running"
    /\ Top.at = "for"
    /\ Top.files # <<>>
    /\ ~tree[Head(Top.files)].folder
    /\ ls_stack' = SetTop([Top EXCEPT
                      !.files = Tail(Top.files),
                      !.results = Append(Top.results,
                                         << Head(Top.files),
                                            tree[Head(Top.files)].name >>)])
    /\ UNCHANGED << tree, page_size, ls_result, ls_pc, pipevars, gpvars,
                    scvars >>

\* variant of LsNextPage: the next request skips one entry
LsNextPageSkip ==
    /\ ls_pc = "running"
    /\ Top.at = "for"
    /\ Top.files = <<>>
    /\ Top.next # 0
    /\ ls_stack' = SetTop([Top EXCEPT !.page_token = Top.next + 1,
                                      !.at = "list"])
    /\ UNCHANGED << tree, page_size, ls_result, ls_pc, pipevars, gpvars,
                    scvars >>

\* page_token = resp.get("nextPageToken"), and the loop goes round
LsNextPage ==
    /\ ls_pc = "running"
    /\ Top.at = "for"
    /\ Top.files = <<>>
    /\ Top.next # 0
    /\ ls_stack' = SetTop([Top EXCEPT !.page_token = Top.next,
                                      !.at = "list"])
    /\ UNCHANGED << tree, page_size, ls_result, ls_pc, pipevars, gpvars,
                    scvars >>

\* the value of a finished call goes to results.extend(...) of its caller,
\* or to the caller of the outermost call
Return(results) ==
    IF Len(ls_stack) = 1
    THEN /\ ls_stack' = <<>>
         /\ ls_result' = results
         /\ ls_pc' = "returned"
    ELSE /\ ls_stack' =
               LET rest == SubSeq(ls_stack, 1, Len(ls_stack) - 1)
                   caller == rest[Len(rest)]
               IN  [rest EXCEPT ![Len(rest)] =
                      [caller EXCEPT !.results = caller.results \o results]]
         /\ UNCHANGED << ls_result, ls_pc >>

\* variant of LsReturn: the continuation token is not looked at
LsReturnFirstPage ==
    /\ ls_pc = "running"
    /\ Top.at = "for"
    /\ Top.files = <<>>
    /\ Return(Top.results)
    /\ UNCHANGED << tree, page_size, pipevars, gpvars, scvars >>

\* "if not page_token: break" and "return results"
LsReturn ==
    /\ ls_pc = "running"
    /\ Top.at = "for"
    /\ Top.files = <<>>
    /\ Top.next = 0
    /\ Return(Top.results)
    /\ UNCHANGED << tree, page_size, pipevars, gpvars, scvars >>

NextList ==
    \/ LsListPage
    \/ LsDescend
    \/ LsAppend
    \/ LsNextPage
    \/ LsReturn

\* the call runs in one thread and no request blocks for ever
SpecList == InitList /\ [][NextList]_vars /\ WF_vars(NextList)

\* ---------------------------------------------------- get_folder_id_by_path
\* "Mi unidad"
MiUnidad == <<77, 105, 32, 117, 110, 105, 100, 97, 100>>

\* "", "Mi unidad", "A", "B": the pieces the explored paths are made of
Pieces == { <<>>, MiUnidad, <<65>>, <<66>> }

\* "/".join(pieces)
RECURSIVE Join(_)
Join(pieces) ==
    IF pieces = <<>> THEN <<>>
    ELSE IF Len(pieces) = 1 THEN pieces[1]
    ELSE pieces[1] \o <<47>> \o Join(Tail(pieces))

\* str.lstrip("/") and str.rstrip("/")
RECURSIVE LStrip(_)
LStrip(str) ==
    IF str # <<>> /\ Head(str) = 47 THEN LStrip(Tail(str)) ELSE str

RECURSIVE RStrip(_)
RStrip(str) ==
    IF str # <<>> /\ str[Len(str)] = 47
    THEN RStrip(SubSeq(str, 1, Len(str) - 1)) ELSE str

\* str.split("/"): cur is the piece being read
RECURSIVE SplitFrom(_, _)
SplitFrom(str, cur) ==
    IF str = <<>> THEN << cur >>
    ELSE IF Head(str) = 47 THEN << cur >> \o SplitFrom(Tail(str), <<>>)
    ELSE SplitFrom(Tail(str), Append(cur, Head(str)))

\* [s for s in path.strip("/").split("/") if s and s != "Mi unidad"]
Segments(path) ==
    SelectSeq(SplitFrom(RStrip(LStrip(path)), <<>>),
              LAMBDA c : c # <<>> /\ c # MiUnidad)

\* the entries of the drive seen by the lookups: folders and files named
\* "A" or "B", some of them in the bin
PathTrees ==
    UNION { { t \in [1..m -> [parent : 0..(m - 1), folder : BOOLEAN,
                              trashed : BOOLEAN,
                              name : { <<65>>, <<66>> }]] :
                \A n \in 1..m :
                   /\ t[n].parent < n
                   /\ t[n].parent # 0 => t[t[n].parent].folder } :
            m \in 0..MaxFolders }

\* the files matched by "name = '<name>' and mimeType = folder and
\* '<parent_id>' in parents and trashed = false"
Matches(name, parent_id) ==
    { n \in 1..Len(tree) : /\ tree[n].name = name
                           /\ tree[n].folder
                           /\ tree[n].parent = parent_id
                           /\ ~tree[n].trashed }

InitPath ==
    /\ PipelineIdle
    /\ ScanIdle
    /\ tree \in PathTrees
    /\ page_size = 1
    /\ ls_stack = <<>>
    /\ ls_result = <<>>
    /\ ls_pc = "idle"
    /\ \E pieces \in SeqsUpTo(Pieces, MaxSegments) :
          gp_segments = Segments(Join(pieces))
    /\ gp_i = 1
    /\ gp_parent = 0
    /\ gp_lookups = <<>>
    /\ gp_out = "running"

\* variant of GpNotFound: a segment without a match is skipped
GpNotFoundSkip ==
    /\ gp_out = "running"
    /\ gp_i <= Len(gp_segments)
    /\ Matches(gp_segments[gp_i], gp_parent) = {}
    /\ gp_lookups' = Append(gp_lookups, << gp_segments[gp_i], gp_parent >>)
    /\ gp_i' = gp_i + 1
    /\ UNCHANGED << gp_segments, gp_parent, gp_out, pipevars, lsvars,
                    scvars >>

\* the lookup of one segment: pageSize = 1, the service answers with one of
\* the matching folders; parent_id = items[0]["id"]
GpFound(n) ==
    /\ gp_out = "running"
    /\ gp_i <= Len(gp_segments)
    /\ n \in Matches(gp_segments[gp_i], gp_parent)
    /\ gp_lookups' = Append(gp_lookups, << gp_segments[gp_i], gp_parent >>)
    /\ gp_parent' = n
    /\ gp_i' = gp_i + 1
    /\ UNCHANGED << gp_segments, gp_out, pipevars, lsvars, scvars >>

\* "if not items: raise FileNotFoundError(...)"
GpNotFound ==
    /\ gp_out = "running"
    /\ gp_i <= Len(gp_segments)
    /\ Matches(gp_segments[gp_i], gp_parent) = {}
    /\ gp_lookups' = Append(gp_lookups, << gp_segments[gp_i], gp_parent >>)
    /\ gp_out' = "raised"
    /\ UNCHANGED << gp_segments, gp_i, gp_parent, pipevars, lsvars, scvars >>

\* "return parent_id"
GpReturn ==
    /\ gp_out = "running"
    /\ gp_i > Len(gp_segments)
    /\ gp_out' = "returned"
    /\ UNCHANGED << gp_segments, gp_i, gp_parent, gp_lookups, pipevars,
                    lsvars, scvars >>

NextPath ==
    \/ \E n \in 1..Len(tree) : GpFound(n)
    \/ GpNotFound
    \/ GpReturn

SpecPath == InitPath /\ [][NextPath]_vars

\* ------------------------------------------------------- process_image_list
\* The paths handed to the scan are files of one directory, named by their
\* file names.  A file is "valid" when Image.open and verify() accept it and
\* "partial" when they raise IOError, SyntaxError or UnidentifiedImageError.
scanrest == << run, params, pc, remote_image_files, pending_del, k,
               files_to_download, cached_image_paths, dlvars, image_paths,
               obs, lsvars, gpvars,
               more >>

InitScan ==
    /\ run = 1
    /\ variant = "v2"
    /\ forzar_descarga = FALSE
    /\ max_workers = MaxWorkers
    /\ remote_files = <<>>
    /\ fs \in [NameSet -> {"absent", "valid", "partial"}]
    /\ pc = "idle"
    /\ remote_image_files = <<>>
    /\ pending_del = {}
    /\ k = 1
    /\ files_to_download = <<>>
    /\ cached_image_paths = <<>>
    /\ fut = <<>>
    /\ yielded = {}
    /\ dl_image_paths = <<>>
    /\ errors = 0
    /\ image_paths = <<>>
    /\ ObsInit
    /\ MoreIdle
    /\ ListingIdle
    /\ PathIdle
    /\ fs0 = fs
    /\ scan_paths \in SeqsUpTo(NameSet, MaxScanPaths)
    /\ scan_i = 1
    /\ deleted_count = 0
    /\ scan_rets = <<>>

Scanning == scan_i \in 1..Len(scan_paths)

\* check_and_delete_corrupted_image: "if not os.path.exists(image_path):
\* return False"
ScanMissing ==
    /\ Scanning
    /\ fs[scan_paths[scan_i]] = "absent"
    /\ scan_i' = scan_i + 1
    /\ UNCHANGED << fs, fs0, scan_paths, deleted_count, scan_rets, scanrest >>

\* variant of ScanValid: a file that verifies is removed and counted
ScanValidRemoved ==
    /\ Scanning
    /\ fs[scan_paths[scan_i]] = "valid"
    /\ fs' = [fs EXCEPT ![scan_paths[scan_i]] = "absent"]
    /\ deleted_count' = deleted_count + 1
    /\ scan_i' = scan_i + 1
    /\ UNCHANGED << fs0, scan_paths, scan_rets, scanrest >>

\* verify() passes: return False
ScanValid ==
    /\ Scanning
    /\ fs[scan_paths[scan_i]] = "valid"
    /\ scan_i' = scan_i + 1
    /\ UNCHANGED << fs, fs0, scan_paths, deleted_count, scan_rets, scanrest >>

\* the except branch, os.remove succeeds: return True, deleted_count += 1
ScanDeleted ==
    /\ Scanning
    /\ fs[scan_paths[scan_i]] = "partial"
    /\ fs' = [fs EXCEPT ![scan_paths[scan_i]] = "absent"]
    /\ deleted_count' = deleted_count + 1
    /\ scan_i' = scan_i + 1
    /\ UNCHANGED << fs0, scan_paths, scan_rets, scanrest >>

\* variant of ScanDeleteFailed: the failed deletion is counted
ScanDeleteFailedCounted ==
    /\ Scanning
    /\ fs[scan_paths[scan_i]] = "partial"
    /\ deleted_count' = deleted_count + 1
    /\ scan_i' = scan_i + 1
    /\ UNCHANGED << fs, fs0, scan_paths, scan_rets, scanrest >>

\* the except branch, os.remove raises OSError: return False
ScanDeleteFailed ==
    /\ Scanning
    /\ fs[scan_paths[scan_i]] = "partial"
    /\ scan_i' = scan_i + 1
    /\ UNCHANGED << fs, fs0, scan_paths, deleted_count, scan_rets, scanrest >>

\* the loop is over: return deleted_count
ScanReturn ==
    /\ scan_i = Len(scan_paths) + 1
    /\ scan_rets' = Append(scan_rets, deleted_count)
    /\ scan_i' = 0
    /\ UNCHANGED << fs, fs0, scan_paths, deleted_count, scanrest >>

\* process_image_list is called again with the same list
ScanAgain ==
    /\ scan_i = 0
    /\ scan_rets # <<>>
    /\ Len(scan_rets) < MaxScans
    /\ scan_i' = 1
    /\ deleted_count' = 0
    /\ UNCHANGED << fs, fs0, scan_paths, scan_rets, scanrest >>

NextScan ==
    \/ ScanMissing
    \/ ScanValid
    \/ ScanDeleted
    \/ ScanDeleteFailed
    \/ ScanReturn
    \/ ScanAgain

SpecScan == InitScan /\ [][NextScan]_vars

\* ------------------------------------------------ the same tree listed twice
\* trees without trashed entries, files named "1.jpg"
PlainTrees ==
    UNION { { t \in [1..m -> [parent : 0..(m - 1), folder : BOOLEAN,
                              trashed : {FALSE},
                              name : { <<49, 46, 106, 112, 103>>,
                                       FolderName }]] :
                \A n \in 1..m :
                   /\ t[n].parent < n
                   /\ t[n].parent # 0 => t[t[n].parent].folder
                   /\ t[n].folder <=> t[n].name = FolderName } :
            m \in 0..MaxNodes }

InitListTwice ==
    /\ PipelineOff
    /\ PathIdle
    /\ ScanIdle
    /\ InterruptIdle
    /\ prev_run = <<>>
    /\ ClientsIdle
    /\ tree \in PlainTrees
    /\ page_size \in 1..MaxPageSize
    /\ ls_order \in {"asc", "desc"}
    /\ ls_prev = <<>>
    /\ ls_endless = FALSE
    /\ ls_stack = << Frame(0) >>
    /\ ls_result = <<>>
    /\ ls_pc = "running"

\* list_files_recursive is called again on the same folder; the service may
\* page and order its answers differently
LsAgain ==
    /\ ls_pc = "returned"
    /\ ls_prev = <<>>
    /\ ls_prev' = << ls_result >>
    /\ ls_result' = <<>>
    /\ ls_stack' = << Frame(0) >>
    /\ ls_pc' = "running"
    /\ page_size' \in 1..MaxPageSize
    /\ ls_order' \in {"asc", "desc"}
    /\ UNCHANGED << tree, ls_endless, intvars, prev_run, clvars, run, params,
                    fs, pc, remote_image_files, pending_del, k,
                    files_to_download, cached_image_paths, dlvars,
                    image_paths, obs, gpvars, scvars >>

NextListTwice == NextList \/ LsAgain

SpecListTwice == InitListTwice /\ [][NextListTwice]_vars

\* ----------------------------------------- a service that always has a token
InitListAny ==
    /\ PipelineOff
    /\ PathIdle
    /\ ScanIdle
    /\ InterruptIdle
    /\ prev_run = <<>>
    /\ ClientsIdle
    /\ tree \in PlainTrees
    /\ page_size \in 1..MaxPageSize
    /\ ls_order = "asc"
    /\ ls_prev = <<>>
    /\ ls_endless \in BOOLEAN
    /\ ls_stack = << Frame(0) >>
    /\ ls_result = <<>>
    /\ ls_pc = "running"

\* the listing thread is never kept from its next step
SpecListAny == InitListAny /\ [][NextList]_vars /\ WF_vars(NextList)

\* ------------------------------------------- Ctrl-C while the pool is active
\* a direct call of download_files_parallel of main_lentes_v2.py
InitInt == InitDL /\ variant = "dl_v2"

\* KeyboardInterrupt is raised in the main thread, which is in the result
\* loop: the loop is left and the with block calls shutdown(wait=True)
Interrupt ==
    /\ pc = "download"
    /\ ~interrupted
    /\ interrupted' = TRUE
    /\ pending_at_int' = { t \in 1..Len(fut) : fut[t] = "pending" }
    /\ UNCHANGED << run, params, fs, pc, remote_image_files, pending_del, k,
                    files_to_download, cached_image_paths, dlvars,
                    image_paths, obs, lsvars, gpvars, scvars, lsenv,
                    prev_run, clvars >>

\* the pool threads have emptied the queue and are joined; the exception
\* reaches "except KeyboardInterrupt" of the main block
Unwind ==
    /\ pc = "download"
    /\ interrupted
    /\ \A t \in 1..Len(fut) : fut[t] \in {"result", "exception"}
    /\ pc' = "interrupted"
    /\ printed' = <<"INFO">>
    /\ UNCHANGED << run, params, fs, remote_image_files, pending_del, k,
                    files_to_download, cached_image_paths, dlvars,
                    image_paths, summary, pool, clients, classified, others >>

NextInt ==
    \/ NextDL
    \/ Interrupt
    \/ Unwind

SpecInt == InitInt /\ [][NextInt]_vars

\* ------------------------------------------------ what may delete a file
\* a run of the pipeline, or a scan of a short list
InitFrame ==
    \/ Init
    \/ InitScan /\ Len(scan_paths) <= MaxFramePaths

NextFrame == Next \/ NextScan

SpecFrame == InitFrame /\ [][NextFrame]_vars

\* ------------------------------------------------- clients of the tasks
\* How a download task gets its Drive client: "task" is _download_task of
\* main_lentes_v2.py and main_lentes_v1.py (a client per task),
\* "thread_local" is get_thread_local_drive_service of preprocesamiento.py,
\* "worker" is download_worker of main_lentes_v1.py (a client per thread,
\* built before the first task).
InitClients ==
    /\ PipelineOff
    /\ ListingIdle
    /\ PathIdle
    /\ ScanIdle
    /\ ListingEnvIdle
    /\ InterruptIdle
    /\ prev_run = <<>>
    /\ cl_variant \in {"task", "thread_local", "worker"}
    /\ cl_threads = [w \in 1..max_workers |-> [task |-> 0, drive |-> 0]]
    /\ \E n \in 0..MaxRemote : cl_tasks = [t \in 1..n |-> 0]
    /\ cl_made = 0

\* the tasks still in the work queue, which is first in first out
Queued == { t \in 1..Len(cl_tasks) :
               /\ cl_tasks[t] = 0
               /\ \A w \in DOMAIN cl_threads : cl_threads[w].task # t }

\* drive_service_func() is called by the task of thread w
BuildsClient(w) ==
    \/ cl_variant = "task"
    \/ cl_variant = "thread_local" /\ cl_threads[w].drive = 0

\* variant of ClientFor: one client, built once, serves every task
ClientForShared(w) == 1

\* the client the task started by thread w works with
ClientFor(w) ==
    IF BuildsClient(w) THEN cl_made + 1 ELSE cl_threads[w].drive

\* download_worker: drive = drive_service_func() before the first q_in.get()
ClBoot(w) ==
    /\ cl_variant = "worker"
    /\ cl_threads[w].drive = 0
    /\ cl_threads' = [cl_threads EXCEPT ![w].drive = cl_made + 1]
    /\ cl_made' = cl_made + 1
    /\ UNCHANGED << cl_variant, cl_tasks, lsenv, intvars, prev_run, run,
                    params, fs, pc, remote_image_files, pending_del, k,
                    files_to_download, cached_image_paths, dlvars,
                    image_paths, obs, lsvars, gpvars, scvars >>

\* an idle thread takes the head of the queue and the task gets its client
ClStart(w) ==
    /\ cl_variant # "idle"
    /\ cl_threads[w].task = 0
    /\ Queued # {}
    /\ cl_variant = "worker" => cl_threads[w].drive # 0
    /\ LET t == CHOOSE x \in Queued : \A y \in Queued : x <= y IN
          /\ cl_tasks' = [cl_tasks EXCEPT ![t] = ClientFor(w)]
          /\ cl_threads' =
                [cl_threads EXCEPT
                   ![w] = [task |-> t,
                           drive |-> IF cl_variant = "thread_local"
                                     THEN ClientFor(w)
                                     ELSE cl_threads[w].drive]]
    /\ cl_made' = IF BuildsClient(w) THEN cl_made + 1 ELSE cl_made
    /\ UNCHANGED << cl_variant, lsenv, intvars, prev_run, run,
                    params, fs, pc, remote_image_files, pending_del, k,
                    files_to_download, cached_image_paths, dlvars,
                    image_paths, obs, lsvars, gpvars, scvars >>

\* the task of thread w returns or raises
ClFinish(w) ==
    /\ cl_variant # "idle"
    /\ cl_threads[w].task # 0
    /\ cl_threads' = [cl_threads EXCEPT ![w].task = 0]
    /\ UNCHANGED << cl_variant, cl_tasks, cl_made, lsenv, intvars, prev_run,
                    run, params, fs, pc, remote_image_files, pending_del, k,
                    files_to_download, cached_image_paths, dlvars,
                    image_paths, obs, lsvars, gpvars, scvars >>

NextClients ==
    \/ \E w \in DOMAIN cl_threads : ClBoot(w)
    \/ \E w \in DOMAIN cl_threads : ClStart(w)
    \/ \E w \in DOMAIN cl_threads : ClFinish(w)

SpecClients == InitClients /\ [][NextClients]_vars

\* ---------------------------------------------------------------- properties
NameOfPath(p) == CHOOSE n \in NameSet : PathJoin(CACHE_DIR, n) = p

PathOfEntry(e) == PathJoin(CACHE_DIR, e[2])

PartitionComplete ==
    /\ pc \in {"partition", "download", "done"}
    /\ remote_files # <<>>
    /\ k = Len(remote_image_files) + 1

TypeOK ==
    /\ run \in 1..MaxRuns
    /\ pc \in {"start", "invalidate", "partition", "download", "done",
               "dl_call", "dl_returned", "v1_start", "idle",
               "interrupted"}
    /\ variant \in {"v2", "v1", "dl_v2", "dl_v1"}
    /\ k \in 1..(Len(remote_image_files) + 1)
    /\ pc \in {"download", "done"} /\ remote_files # <<>> => PartitionComplete
    /\ \A n \in NameSet : fs[n] \in {"absent", "valid", "partial"}
    /\ \A t \in 1..Len(fut) :
          fut[t] \in {"pending", "running", "result", "exception"}
    /\ yielded \subseteq 1..Len(fut)

\* C1: every remote image entry already visited by the partition loop is in
\* exactly one of cached_image_paths (by its cache path) and
\* files_to_download (as the entry itself, once); the two lists hold nothing
\* else, and once the loop has ended they cover all of remote_image_files.
C1_PartitionExact ==
    /\ k \in 1..(Len(remote_image_files) + 1)
    /\ pc \in {"download", "done"} /\ remote_files # <<>> => PartitionComplete
    /\ Len(cached_image_paths) + Len(files_to_download) = k - 1
    /\ \A j \in 1..(k - 1) :
          LET e == remote_image_files[j] IN
             \/ /\ Count(files_to_download, e) = 1
                /\ PathOfEntry(e) \notin Range(cached_image_paths)
             \/ /\ Count(files_to_download, e) = 0
                /\ PathOfEntry(e) \in Range(cached_image_paths)
    /\ \A e \in Range(files_to_download) :
          e \in Range(SubSeq(remote_image_files, 1, k - 1))
    /\ \A p \in Range(cached_image_paths) :
          \E j \in 1..(k - 1) : PathOfEntry(remote_image_files[j]) = p

C1_Witness ==
    /\ PartitionComplete
    /\ cached_image_paths # <<>>
    /\ files_to_download # <<>>
    /\ Len(remote_image_files) = MaxRemote

\* C2: without forzar_descarga, while the partition loop runs (the cache
\* directory does not change meanwhile) a visited entry is in
\* cached_image_paths iff a file of its name is present in the cache
\* directory, and otherwise it is in files_to_download; the download manager
\* is handed exactly the entries whose file was absent.
C2_CachedIffPresent ==
    ~forzar_descarga =>
       /\ pc = "partition" =>
             /\ \A j \in 1..(k - 1) :
                   LET e == remote_image_files[j] IN
                      /\ (PathOfEntry(e) \in Range(cached_image_paths))
                            <=> (fs[e[2]] # "absent")
                      /\ (e \in Range(files_to_download))
                            <=> (fs[e[2]] = "absent")
             /\ Len(files_to_download) =
                   Cardinality({ j \in 1..(k - 1) :
                                    fs[remote_image_files[j][2]] = "absent" })
       /\ pc = "download" =>
             /\ Len(fut) = Len(files_to_download)
             /\ Len(fut) = Len(remote_image_files) - Len(cached_image_paths)

\* cache holds 2 of 3 remote images: one task is submitted
C2_Witness ==
    /\ pc = "download"
    /\ Cardinality({ remote_image_files[j][2] :
                        j \in 1..Len(remote_image_files) }) = 3
    /\ Len(cached_image_paths) = 2
    /\ Len(fut) = 1
    /\ ~forzar_descarga

\* C3: with forzar_descarga, whatever the invalidation pass left in the cache
\* directory, cached_image_paths stays empty and files_to_download is the
\* visited prefix of remote_image_files, all of it once the loop has ended.
C3_ForcedAllFetched ==
    forzar_descarga /\ pc \in {"partition", "download", "done"}
                    /\ remote_files # <<>> =>
       /\ cached_image_paths = <<>>
       /\ files_to_download = SubSeq(remote_image_files, 1, k - 1)
       /\ pc \in {"download", "done"} => files_to_download = remote_image_files

\* a deletion failed for a file that is also a remote image
C3_Witness ==
    /\ pc = "download"
    /\ \A t \in 1..Len(fut) : fut[t] = "pending"
    /\ \E j \in 1..Len(remote_image_files) :
          fs[remote_image_files[j][2]] = "valid"
    /\ forzar_descarga
    /\ run = 1

DownloadReturned == pc = "done" /\ fut # <<>>

\* C4: when download_files_parallel has returned, successes plus errors
\* equals the number of submitted tasks.
C4_OutcomesEqualTasks ==
    DownloadReturned =>
       Len(dl_image_paths) + errors = Len(files_to_download)

C4_Witness ==
    /\ DownloadReturned
    /\ Len(files_to_download) = 3
    /\ errors = 2
    /\ Len(dl_image_paths) = 1

\* C5: when download_files_parallel has returned, every task has run to its
\* own outcome, and the returned list holds the destination path of every
\* task whose fetch completed, once per such task, whichever siblings
\* failed and in whichever order the tasks finished.
C5_FailureIsolated ==
    DownloadReturned =>
       /\ \A t \in 1..Len(fut) : fut[t] \in {"result", "exception"}
       /\ \A t \in 1..Len(fut) :
             fut[t] = "result" =>
                Count(dl_image_paths, PathOfEntry(files_to_download[t])) =
                   Cardinality({ u \in 1..Len(fut) :
                                    /\ fut[u] = "result"
                                    /\ files_to_download[u][2] =
                                          files_to_download[t][2] })

\* one failure among two tasks: 1 success and 1 error
C5_Witness ==
    /\ DownloadReturned
    /\ Len(fut) = 2
    /\ fut[1] = "exception"
    /\ fut[2] = "result"
    /\ errors = 1
    /\ dl_image_paths = << PathOfEntry(files_to_download[2]) >>

\* C6: at every moment the number of fetches in progress is at most
\* max_workers.
C6_BoundedConcurrency == Cardinality(Running) <= max_workers

\* the pool is saturated while a task is still queued
C6_Witness ==
    /\ pc = "download"
    /\ Cardinality(Running) = max_workers
    /\ \E t \in 1..Len(fut) : fut[t] = "pending"

\* C7: a file left half-written by a failed download is never classified as
\* a cache hit by a run without forzar_descarga.
C7_HalfWrittenNotCached ==
    ~forzar_descarga =>
       \A p \in Range(cached_image_paths) : fs[NameOfPath(p)] # "partial"

\* C8: a structurally corrupt file that the cache index classified as a hit
\* is not in the path list the orchestrator returns.
C8_CorruptHitExcluded ==
    pc = "done" =>
       \A p \in Range(cached_image_paths) :
          fs[NameOfPath(p)] = "partial" => p \notin Range(image_paths)

Sorted(s) == \A j \in 1..(Len(s) - 1) : ~StrLess(s[j + 1], s[j])

\* C9: the returned path list is in ascending order and holds each path as
\* many times as cached_image_paths and the successful downloads together.
C9_SortedMerge ==
    pc = "done" =>
       /\ Sorted(image_paths)
       /\ Len(image_paths) = Len(cached_image_paths) + Len(dl_image_paths)
       /\ \A n \in NameSet :
             LET p == PathJoin(CACHE_DIR, n) IN
                Count(image_paths, p) =
                   Count(cached_image_paths, p) + Count(dl_image_paths, p)

\* the merge order differs from the sorted order
C9_Witness ==
    /\ DownloadReturned
    /\ cached_image_paths # <<>>
    /\ dl_image_paths # <<>>
    /\ image_paths # cached_image_paths \o dl_image_paths

\* C10: no local path appears more than once in the returned path list.
C10_NoDuplicatePath ==
    pc = "done" =>
       \A i, j \in 1..Len(image_paths) :
          i # j => image_paths[i] # image_paths[j]

\* the names of NameSet with an image extension, and their cache paths
ImageNames == { n \in NameSet : IsImageName(n) }

ImagePaths == { PathJoin(CACHE_DIR, n) : n \in ImageNames }

ImageEntries == SelectSeq(remote_files, LAMBDA e : e[2] \in ImageNames)

\* C11: in both pipelines only entries with an image extension (compared in
\* lower case) get past the filter: the partition works on exactly the image
\* entries of the listing, in order, and no other entry is ever queued for
\* download, reported as cached or written to the download directory.
C11_NonImagesNeverFetched ==
    /\ \A e \in Range(files_to_download) : e[2] \in ImageNames
    /\ Range(cached_image_paths) \subseteq ImagePaths
    /\ Range(dl_image_paths) \subseteq ImagePaths
    /\ \A n \in NameSet \ ImageNames : fs[n] = "absent"
    /\ variant = "v2" /\ pc \in {"invalidate", "partition", "download"} =>
          remote_image_files = ImageEntries
    /\ variant = "v1" /\ pc \in {"download", "dl_returned"} =>
          files_to_download = ImageEntries

\* a listing with a non-image entry has been downloaded
C11_Witness ==
    /\ pc = "done"
    /\ fut # <<>>
    /\ Len(fut) < Len(remote_files)
    /\ dl_image_paths # <<>>
    /\ \E j \in 1..Len(remote_files) : ~IsImageName(remote_files[j][2])

\* C16: download_files_parallel with nothing to fetch returns an empty list
\* without a pool, without a client and without touching the directory.
C16_EmptyInputNoPool ==
    pc = "dl_returned" /\ ValidFiles = <<>> =>
       /\ dl_image_paths = <<>>
       /\ ~pool
       /\ clients = 0
       /\ fut = <<>>
       /\ \A n \in NameSet : fs[n] = "absent"

C16_Witness ==
    /\ pc = "dl_returned"
    /\ variant = "dl_v2"
    /\ remote_files = <<>>
    /\ printed = <<"WARNING">>

\* C17: whenever download_files_parallel has returned, the summary
\* with the counts of successes and failures has been printed.
C17_SummaryAlways ==
    pc = "dl_returned" => summary = << Len(dl_image_paths), errors >>

EmptyCase ==
    \/ remote_files = <<>>
    \/ \A j \in 1..Len(remote_files) : ~IsImageName(remote_files[j][2])
    \/ cached_image_paths = <<>> /\ dl_image_paths = <<>>

\* C18: when the orchestrator has returned in an empty case (empty listing, no
\* image name in the listing, no cache hit and no successful download), the
\* returned list is empty and the detection phase was not entered; in the
\* first two cases nothing was downloaded either.
C18_EmptyResultNoClassification ==
    pc = "done" /\ EmptyCase =>
       /\ image_paths = <<>>
       /\ ~classified
       /\ (cached_image_paths = <<>> /\ dl_image_paths = <<>>)
       /\ fut = <<>> => clients = 0

\* every download of a v2 run failed and nothing was cached
C18_Witness ==
    /\ pc = "done"
    /\ variant = "v2"
    /\ fut # <<>>
    /\ errors = Len(fut)
    /\ ~classified

\* a step of the invalidation loop whose os.remove failed
RemoveFailedStep ==
    /\ pc = "invalidate"
    /\ pending_del' # pending_del
    /\ fs' = fs

\* C19: a failed os.remove of the invalidation pass prints a warning naming
\* the entry and leaves the loop running with every other entry still to be
\* visited; the partition starts only when no entry is left, and a forced run
\* with image entries goes on to download them.
C19_DeleteFailureReported ==
    /\ [][RemoveFailedStep =>
             \E f \in pending_del :
                /\ pending_del' = pending_del \ {f}
                /\ printed' = <<"WARNING", f>>
                /\ pc' = "invalidate"]_vars
    /\ [](pc \in {"partition", "download", "done"} => pending_del = {})
    /\ [](forzar_descarga /\ pc = "done" /\ remote_image_files # <<>>
             => fut # <<>>)

\* a failure has just been reported and entries are still to be visited
C19_Witness ==
    /\ pc = "invalidate"
    /\ pending_del # {}
    /\ \E f \in NameSet : printed = <<"WARNING", f>> /\ fs[f] = "valid"

\* C20: while the invalidation pass or the partition is still running no
\* download task exists; once a task exists, both are complete.
C20_InvalidateBeforeDownload ==
    /\ pc \in {"start", "invalidate", "partition"} =>
          fut = <<>> /\ ~pool /\ clients = 0
    /\ pc = "invalidate" => k = 1
    /\ variant = "v2" /\ fut # <<>> =>
          /\ pc \in {"download", "done"}
          /\ pending_del = {}
          /\ k = Len(remote_image_files) + 1

\* a task writes while a file that survived the pass is in the directory
C20_Witness ==
    /\ forzar_descarga
    /\ Running # {}
    /\ \E n \in NameSet : fs[n] = "valid"

\* an entry is reached by the descent when neither it nor a folder above it
\* is in the bin
RECURSIVE Reachable(_)
Reachable(n) ==
    /\ ~tree[n].trashed
    /\ tree[n].parent # 0 => Reachable(tree[n].parent)

Leaves == { << n, tree[n].name >> :
               n \in { j \in 1..Len(tree) : ~tree[j].folder /\ Reachable(j) } }

\* C12: list_files_recursive returns for every finite tree and page size, and
\* the list it returns holds the (id, name) pair of every non-folder entry
\* reachable below the root, once each, and nothing else.
C12_ListingComplete ==
    /\ <>(ls_pc = "returned")
    /\ [](ls_pc = "returned" =>
             /\ Range(ls_result) = Leaves
             /\ Len(ls_result) = Cardinality(Leaves))

\* two pages of a nested folder have been listed
C12_Witness ==
    /\ ls_pc = "returned"
    /\ page_size = 1
    /\ Len(ls_result) >= 2
    /\ \E a, b \in 1..Len(tree) :
          /\ a # b
          /\ tree[a].parent # 0
          /\ tree[a].parent = tree[b].parent
          /\ << a, tree[a].name >> \in Range(ls_result)
          /\ << b, tree[b].name >> \in Range(ls_result)

\* lookup j was scoped to the folder found for segment j - 1 (the root for
\* the first segment)
ScopedLookup(j) ==
    /\ gp_lookups[j][1] = gp_segments[j]
    /\ IF j = 1 THEN gp_lookups[j][2] = 0
       ELSE gp_lookups[j][2] \in
               Matches(gp_segments[j - 1], gp_lookups[j - 1][2])

\* C13: the lookups follow the segments in order, each one scoped to the
\* folder found for the segment before; a lookup without a match raises at
\* that segment, after which nothing is looked up and nothing is returned; a
\* folder id is returned only when every segment had a match, and it is the
\* folder found for the last one.
C13_PathResolution ==
    /\ [](/\ Len(gp_lookups) <= Len(gp_segments)
          /\ \A j \in 1..Len(gp_lookups) : ScopedLookup(j))
    /\ [](gp_out = "raised" =>
             /\ gp_lookups # <<>>
             /\ Matches(gp_lookups[Len(gp_lookups)][1],
                        gp_lookups[Len(gp_lookups)][2]) = {}
             /\ \A j \in 1..(Len(gp_lookups) - 1) :
                   Matches(gp_lookups[j][1], gp_lookups[j][2]) # {})
    /\ [](gp_out = "returned" =>
             /\ Len(gp_lookups) = Len(gp_segments)
             /\ \A j \in 1..Len(gp_lookups) :
                   Matches(gp_lookups[j][1], gp_lookups[j][2]) # {}
             /\ IF gp_segments = <<>> THEN gp_parent = 0
                ELSE gp_parent \in Matches(gp_lookups[Len(gp_lookups)][1],
                                           gp_lookups[Len(gp_lookups)][2]))
    /\ [][gp_out = "raised" => UNCHANGED gpvars]_vars

\* the first segment has no match although a folder with the name of the
\* second one exists at the root
C13_Witness ==
    /\ gp_out = "raised"
    /\ Len(gp_segments) = 2
    /\ Len(gp_lookups) = 1
    /\ Matches(gp_segments[2], 0) # {}

RECURSIVE SumSeq(_)
SumSeq(q) == IF q = <<>> THEN 0 ELSE Head(q) + SumSeq(Tail(q))

\* the files that were on disk before the first scan and are gone
Removed == { n \in NameSet : fs0[n] # "absent" /\ fs[n] = "absent" }

\* C14: the values returned by process_image_list, with the count of the
\* call in progress, add up to the number of files actually removed, all of
\* them listed files found corrupt; a missing file and a failed deletion
\* leave the count and the disk as they are and move the scan on to the next
\* path, and a call returns only after the last path.
C14_CountsActualDeletions ==
    /\ [](/\ SumSeq(scan_rets) + (IF scan_i = 0 THEN 0 ELSE deleted_count)
                = Cardinality(Removed)
          /\ \A n \in Removed : fs0[n] = "partial" /\ n \in Range(scan_paths))
    /\ [][/\ Scanning /\ fs[scan_paths[scan_i]] = "absent" =>
                /\ scan_i' = scan_i + 1
                /\ deleted_count' = deleted_count
                /\ fs' = fs
          /\ Scanning /\ fs' = fs =>
                /\ scan_i' = scan_i + 1
                /\ deleted_count' = deleted_count
          /\ scan_rets' # scan_rets =>
                /\ scan_i = Len(scan_paths) + 1
                /\ scan_rets' = Append(scan_rets, deleted_count)]_vars

\* one call met a missing file, a corrupt file that could not be removed and
\* a corrupt file that was removed
C14_Witness ==
    /\ scan_rets = <<1>>
    /\ \E a, b, c \in Range(scan_paths) :
          /\ fs0[a] = "absent"
          /\ fs0[b] = "partial" /\ fs[b] = "partial"
          /\ fs0[c] = "partial" /\ fs[c] = "absent"

AllListedValid ==
    /\ scan_paths # <<>>
    /\ \A n \in Range(scan_paths) : fs0[n] = "valid"

\* C15: when every listed file is valid, neither call of process_image_list
\* removes anything: each returns 0 and the files on disk stay as they were.
C15_ScanIdempotentOnValid ==
    AllListedValid =>
       /\ fs = fs0
       /\ deleted_count = 0
       /\ \A j \in 1..Len(scan_rets) : scan_rets[j] = 0

C15_Witness ==
    /\ AllListedValid
    /\ Len(scan_paths) >= 2
    /\ Len(scan_rets) = 2
    /\ scan_i = 0

Busy == { w \in DOMAIN cl_threads : cl_threads[w].task # 0 }

Started == { t \in 1..Len(cl_tasks) : cl_tasks[t] # 0 }

\* C21: two tasks that run at the same time never work with the same client.
\* With a client per task every started task has a client of its own; with a
\* client per thread each thread builds at most one, which differs from the
\* other threads' and serves every task the thread runs.
C21_NoSharedClient ==
    /\ \A w1, w2 \in Busy :
          w1 # w2 => cl_tasks[cl_threads[w1].task] # cl_tasks[cl_threads[w2].task]
    /\ cl_variant = "task" =>
          /\ cl_made = Cardinality(Started)
          /\ \A t1, t2 \in Started : t1 # t2 => cl_tasks[t1] # cl_tasks[t2]
    /\ cl_variant \in {"thread_local", "worker"} =>
          /\ cl_made =
                Cardinality({ w \in DOMAIN cl_threads : cl_threads[w].drive # 0 })
          /\ \A w \in Busy : cl_tasks[cl_threads[w].task] = cl_threads[w].drive
          /\ \A w1, w2 \in DOMAIN cl_threads :
                w1 # w2 /\ cl_threads[w1].drive # 0 =>
                   cl_threads[w1].drive # cl_threads[w2].drive

\* two threads are busy, one of them on a later task with the client it
\* built for an earlier one
C21_Witness ==
    /\ cl_variant = "thread_local"
    /\ Cardinality(Busy) = 2
    /\ Cardinality(Started) = 3
    /\ cl_made = 2

\* C22: the second listing of an unchanged tree returns the same set of
\* entries as the first, whatever the page size and the order of siblings of
\* either listing.
C22_ListingRepeatable ==
    ls_prev # <<>> /\ ls_pc = "returned" =>
       Range(ls_result) = Range(ls_prev[1])

\* a folder with two files was listed in both orders, the results differ as
\* lists
C22_Witness ==
    /\ ls_prev # <<>>
    /\ ls_pc = "returned"
    /\ Len(ls_result) >= 2
    /\ ls_result # ls_prev[1]
    /\ \E n \in 1..Len(tree) : tree[n].folder

\* C23: two tasks that run at the same time never write to the same
\* destination path.
C23_DisjointDestinations ==
    \A t1, t2 \in Running :
       t1 # t2 => PathOfEntry(files_to_download[t1])
                     # PathOfEntry(files_to_download[t2])

\* C24: once download_files_parallel has returned, every future holds a
\* result or an exception and has been consumed by the result loop; the merge,
\* the sort and the detection phase see no task pending or writing.
C24_AllResolvedAtReturn ==
    pc = "done" \/ classified \/ image_paths # <<>> =>
       /\ \A t \in 1..Len(fut) : fut[t] \in {"result", "exception"}
       /\ yielded = 1..Len(fut)
       /\ Len(dl_image_paths) + errors = Len(fut)

\* a run with one failed and one successful download has reached detection
C24_Witness ==
    /\ pc = "done"
    /\ classified
    /\ Len(fut) >= 2
    /\ errors >= 1
    /\ dl_image_paths # <<>>

\* C25: a listing whose service returns a continuation token on every page
\* comes to an end all the same.
C25_PaginationBounded == ls_endless ~> (ls_pc # "running")

\* C26: a task that was still queued when the interrupt reached the main
\* thread is never started.
C26_NoStartAfterInterrupt ==
    interrupted => \A t \in pending_at_int : fut[t] = "pending"

\* C27: in a run without forzar_descarga that follows a run without failed
\* download, over the same listing and cache directory, nothing is queued for
\* download, no pool is created, and the list returned is the list the run
\* before returned.
C27_SecondRunFetchesNothing ==
    run >= 2 /\ ~forzar_descarga /\ prev_run # <<>> /\ prev_run[2] = 0 =>
       /\ files_to_download = <<>>
       /\ fut = <<>>
       /\ ~pool
       /\ clients = 0
       /\ pc = "done" => image_paths = prev_run[1]

\* the run before returned without a failed download, this one found both
\* files in the cache and created no pool
C27_Witness ==
    /\ run = 2
    /\ ~forzar_descarga
    /\ pc = "done"
    /\ prev_run # <<>>
    /\ prev_run[2] = 0
    /\ Len(image_paths) = 2
    /\ image_paths = cached_image_paths
    /\ summary = <<>>

\* C28: no step of a run without forzar_descarga takes a file out of the
\* cache directory, and a step of the integrity scan changes at most the file
\* it is looking at, and only when that file failed verification.
C28_DeletionConfined ==
    [][/\ pc # "idle" /\ ~forzar_descarga =>
             \A n \in NameSet : fs[n] # "absent" => fs'[n] # "absent"
       /\ Scanning =>
             \A n \in NameSet :
                fs'[n] # fs[n] => n = scan_paths[scan_i] /\ fs[n] = "partial"]_vars

\* a run without forzar_descarga has downloaded next to a cached file that
\* is still there
C28_Witness ==
    /\ pc = "done"
    /\ ~forzar_descarga
    /\ cached_image_paths # <<>>
    /\ dl_image_paths # <<>>
    /\ \A p \in Range(cached_image_paths) : Exists(p)

====
